---- MODULE Spec2Model ----
(***************************************************************************)
(* Model of the flash-eeprom engine (src/src/lib.rs): a log-structured     *)
(* address -> value store over N erasable pages.  The store is the only    *)
(* state the engine keeps; read_variable, write_variable and               *)
(* run_garbage_collection are modelled as operators that compute, from the *)
(* store and the arguments, the store the call leaves behind, its outcome  *)
(* and the sequence of page updates it made on the way.  A panic ends the  *)
(* call with outcome "fatal" and leaves the store as it was at that point: *)
(* the pages are non-volatile, so later calls see them.                    *)
(*                                                                         *)
(* get_pages / get_pages_mut hand out views of the one backing store (as   *)
(* the ArrayEEPROM of the tests does), so a page update is visible through *)
(* every view.                                                             *)
(***************************************************************************)
EXTENDS Integers, Sequences, FiniteSets, TLC

\* ---------------------------------------------------------------- bounds
NumPages == 3
PageLen == 12
InputAddresses == {0, 1, 2, 255}

\* ------------------------------------------------------- program constants
U8Max == 255
Erased == 255
Active == 1
GcRunning == 0

PageIndexes == 0 .. (NumPages - 1)
Offsets == 0 .. (PageLen - 1)

\* A payload of n units starting at byte v: v, v+1, ... (mod 256), so that
\* every unit of a payload is different and some are 255, 0 and 1.
Payload(n, v) == [j \in 1 .. n |-> (v + j) % 256]
\* Payload lengths: empty, one unit, the one whose entry fills a page exactly
\* (1 + 5 + n = PageLen) and the first one that is too long for a page.  The
\* one-unit payload comes with two contents, to tell a stale value from the
\* current one.
PayloadLens == {0, 1, PageLen - 6, PageLen - 5}
Payloads == {Payload(n, 254) : n \in PayloadLens} \cup {Payload(1, 6)}

ErasedPage == [k \in Offsets |-> U8Max]
ErasedStore == [p \in PageIndexes |-> ErasedPage]

\* ------------------------------------------------------------ entry codec
\* u32::to_le_bytes
ToLeBytes(n) ==
    <<n % 256, (n \div 256) % 256, (n \div 65536) % 256, (n \div 16777216) % 256>>

\* LittleEndian::read_u32 of the four units from offset i.  A value of 2^24
\* or more (top byte not 0) is kept as 2^24: it is only ever added to an
\* offset and compared with the page length, which is far below it.
ReadU32(page, i) ==
    IF page[i + 3] # 0 THEN 16777216
    ELSE page[i] + 256 * page[i + 1] + 65536 * page[i + 2]

\* impl Into<Variable> for &[u8]: the header found at offset i of a page
Variable(page, i) == [address |-> page[i], size |-> ReadU32(page, i + 1)]

\* page[i..j] is a valid slice of a page (otherwise the indexing panics)
SliceOk(i, j) == i <= j /\ j <= PageLen

\* page[i .. i + Len(bytes)].copy_from_slice(bytes) on page p
PutSlice(st, p, i, bytes) ==
    [st EXCEPT ![p] = [k \in Offsets |->
        IF k >= i /\ k < i + Len(bytes) THEN bytes[k - i + 1] ELSE st[p][k]]]

\* &page[i .. i + n] of page p, as a sequence
GetSlice(st, p, i, n) == [j \in 1 .. n |-> st[p][i + j - 1]]

PutUnit(st, p, i, b) == [st EXCEPT ![p][i] = b]

\* reset_page of the page store (tests::ArrayEEPROM): every unit erased
ResetPage(st, p) == [st EXCEPT ![p] = ErasedPage]

\* ------------------------------------------------ memory of a running call
\* pages: the store; steps: the store after each page update made so far;
\* resets: the indexes reset_page was called with, in order.
Mem(st) == [pages |-> st, steps |-> <<>>, resets |-> <<>>]

Upd(m, st) == [m EXCEPT !.pages = st, !.steps = Append(m.steps, st)]

Reset(m, p) ==
    [pages |-> ResetPage(m.pages, p),
     steps |-> Append(m.steps, ResetPage(m.pages, p)),
     resets |-> Append(m.resets, p)]

\* ------------------------------------------------- active-page discovery
\* The header scan shared by the three operations: the first page that is
\* not Erased decides; Active gives its index, anything else panics.
NonErased(st) == {p \in PageIndexes : st[p][0] # U8Max}

FirstNonErased(st) == CHOOSE p \in NonErased(st) : \A q \in NonErased(st) : p <= q

\* Mutant of Discover: a header that is neither Erased, Active nor GcRunning
\* is passed over like an Erased one
DiscoverSkipCorrupt(st) ==
    LET known == {p \in PageIndexes : st[p][0] \in {GcRunning, Active}}
        first == CHOOSE p \in known : \A q \in known : p <= q
    IN IF known = {} THEN [kind |-> "none", index |-> 0]
       ELSE IF st[first][0] = 1 THEN [kind |-> "active", index |-> first]
       ELSE [kind |-> "invalid", index |-> first]

\* Mutant of Discover: a GcRunning header is passed over like an Erased one
DiscoverSkipGcRunning(st) ==
    LET used == {p \in PageIndexes : st[p][0] \notin {Erased, GcRunning}}
        first == CHOOSE p \in used : \A q \in used : p <= q
    IN IF used = {} THEN [kind |-> "none", index |-> 0]
       ELSE IF st[first][0] = 1 THEN [kind |-> "active", index |-> first]
       ELSE [kind |-> "invalid", index |-> first]

Discover(st) ==
    IF NonErased(st) = {} THEN [kind |-> "none", index |-> 0]
    ELSE IF st[FirstNonErased(st)][0] = 1
         THEN [kind |-> "active", index |-> FirstNonErased(st)]
         ELSE [kind |-> "invalid", index |-> FirstNonErased(st)]

\* First use: reset_page(i) for i in 0..N, then pages[0][0] = 1
RECURSIVE ResetFrom(_, _)
ResetFrom(m, i) == IF i >= NumPages THEN m ELSE ResetFrom(Reset(m, i), i + 1)

\* Mutant of Initialize: page 0 is made Active without any page being erased
InitializeHeaderOnly(m) == Upd(m, PutUnit(m.pages, 0, 0, 1))

Initialize(m) == LET r == ResetFrom(m, 0) IN Upd(r, PutUnit(r.pages, 0, 0, 1))

\* ------------------------------------------------------ garbage collector
\* Mutant of NextPageIndex: the collector alternates between pages 0 and 1
NextPageIndexPingPong(active_page_index) ==
    IF active_page_index = 0 THEN 1 ELSE 0

NextPageIndex(active_page_index) ==
    IF active_page_index + 1 = NumPages THEN 0 ELSE active_page_index + 1

GcResult(m, outcome, why, from, ret) ==
    [outcome |-> outcome, why |-> why, pages |-> m.pages, steps |-> m.steps,
     resets |-> m.resets, from |-> from, ret |-> ret]

\* The copy loop: a is the source page, n the destination page.
RECURSIVE GcCopy(_, _, _, _, _)
GcCopy(m, a, n, active_index, next_index) ==
    IF ~SliceOk(active_index, active_index + 5)
    THEN [outcome |-> "fatal", why |-> "scan", m |-> m]
    ELSE LET variable == Variable(m.pages[a], active_index) IN
         IF variable.address = U8Max
         THEN [outcome |-> "ok", why |-> "", m |-> m]
         ELSE IF variable.address = 0
         THEN GcCopy(m, a, n, active_index + 5 + variable.size, next_index)
         ELSE IF ~SliceOk(active_index + 5, active_index + 5 + variable.size)
         THEN [outcome |-> "fatal", why |-> "bounds", m |-> m]
         ELSE IF ~SliceOk(next_index, next_index + 5)
         THEN [outcome |-> "fatal", why |-> "bounds", m |-> m]
         ELSE LET m1 == Upd(m, PutSlice(m.pages, n, next_index,
                                        GetSlice(m.pages, a, active_index, 5)))
              IN IF ~SliceOk(next_index + 5, next_index + 5 + variable.size)
                 THEN [outcome |-> "fatal", why |-> "bounds", m |-> m1]
                 ELSE GcCopy(Upd(m1, PutSlice(m1.pages, n, next_index + 5,
                                     GetSlice(m1.pages, a, active_index + 5,
                                              variable.size))),
                             a, n, active_index,
                             next_index + 5 + variable.size)

\* Mutant of GcRun: the destination page is erased too before it is promoted
GcRunEraseBoth(m) ==
    LET d == Discover(m.pages) IN
    IF d.kind = "invalid" THEN GcResult(m, "fatal", "header", d.index, 0)
    ELSE
    LET m1 == IF d.kind = "active" THEN m ELSE Initialize(m)
        active_page_index == IF d.kind = "active" THEN d.index ELSE 0
        next_page_index == NextPageIndex(active_page_index)
    IN
    IF active_page_index = next_page_index
    THEN GcResult(m1, "fatal", "same", active_page_index, 0)
    ELSE IF m1.pages[next_page_index][0] # Erased
    THEN GcResult(m1, "fatal", "dest", active_page_index, 0)
    ELSE
    LET m2 == Upd(m1, PutUnit(m1.pages, active_page_index, 0, GcRunning))
        c == GcCopy(m2, active_page_index, next_page_index, 1, 1)
    IN
    IF c.outcome = "fatal"
    THEN GcResult(c.m, "fatal", c.why, active_page_index, 0)
    ELSE
    LET m3 == Reset(Reset(c.m, active_page_index), next_page_index)
        m4 == Upd(m3, PutUnit(m3.pages, next_page_index, 0, Active))
    IN GcResult(m4, "ok", "", active_page_index, next_page_index)

\* Mutant of GcRun: the source page is not erased at the end of the cycle
GcRunNoReset(m) ==
    LET d == Discover(m.pages) IN
    IF d.kind = "invalid" THEN GcResult(m, "fatal", "header", d.index, 0)
    ELSE
    LET m1 == IF d.kind = "active" THEN m ELSE Initialize(m)
        active_page_index == IF d.kind = "active" THEN d.index ELSE 0
        next_page_index == NextPageIndex(active_page_index)
    IN
    IF active_page_index = next_page_index
    THEN GcResult(m1, "fatal", "same", active_page_index, 0)
    ELSE IF m1.pages[next_page_index][0] # Erased
    THEN GcResult(m1, "fatal", "dest", active_page_index, 0)
    ELSE
    LET m2 == Upd(m1, PutUnit(m1.pages, active_page_index, 0, GcRunning))
        c == GcCopy(m2, active_page_index, next_page_index, 1, 1)
    IN
    IF c.outcome = "fatal"
    THEN GcResult(c.m, "fatal", c.why, active_page_index, 0)
    ELSE GcResult(Upd(c.m, PutUnit(c.m.pages, next_page_index, 0, Active)),
                  "ok", "", active_page_index, next_page_index)

\* run_garbage_collection, started with the memory m of the caller
GcRun(m) ==
    LET d == Discover(m.pages) IN
    IF d.kind = "invalid" THEN GcResult(m, "fatal", "header", d.index, 0)
    ELSE
    LET m1 == IF d.kind = "active" THEN m ELSE Initialize(m)
        active_page_index == IF d.kind = "active" THEN d.index ELSE 0
        next_page_index == NextPageIndex(active_page_index)
    IN
    IF active_page_index = next_page_index
    THEN GcResult(m1, "fatal", "same", active_page_index, 0)
    ELSE IF m1.pages[next_page_index][0] # Erased
    THEN GcResult(m1, "fatal", "dest", active_page_index, 0)
    ELSE
    LET m2 == Upd(m1, PutUnit(m1.pages, active_page_index, 0, GcRunning))
        c == GcCopy(m2, active_page_index, next_page_index, 1, 1)
    IN
    IF c.outcome = "fatal"
    THEN GcResult(c.m, "fatal", c.why, active_page_index, 0)
    ELSE
    LET m3 == Reset(c.m, active_page_index)
        m4 == Upd(m3, PutUnit(m3.pages, next_page_index, 0, Active))
    IN GcResult(m4, "ok", "", active_page_index, next_page_index)

RunGarbageCollection(st) == GcRun(Mem(st))

\* ----------------------------------------------------------- write path
WriteResult(m, outcome, why, accessed, gc) ==
    [outcome |-> outcome, why |-> why, pages |-> m.pages, steps |-> m.steps,
     resets |-> m.resets, accessed |-> accessed, gcCalls |-> gc.calls,
     gcDone |-> gc.done, gcFrom |-> gc.from, gcRet |-> gc.ret]

NoGc == [calls |-> 0, done |-> FALSE, from |-> 0, ret |-> 0]

\* Mutant of WriteEntry: a payload that does not fit is cut at the page end
\* and the write returns
WriteEntryTruncated(m, p, index, address, data) ==
    LET room == IF PageLen - (index + 5) < Len(data)
                THEN (IF PageLen - (index + 5) < 0 THEN 0 ELSE PageLen - (index + 5))
                ELSE Len(data)
        m1 == Upd(m, PutUnit(m.pages, p, index, address))
        m2 == Upd(m1, PutSlice(m1.pages, p, index + 1, ToLeBytes(Len(data))))
    IN [outcome |-> "ok", why |-> "",
        m |-> Upd(m2, PutSlice(m2.pages, p, index + 5, SubSeq(data, 1, room)))]

\* Mutant of WriteEntry: the length field of the new entry is left erased
WriteEntryNoLength(m, p, index, address, data) ==
    IF index >= PageLen THEN [outcome |-> "fatal", why |-> "bounds", m |-> m]
    ELSE
    LET m1 == Upd(m, PutUnit(m.pages, p, index, address)) IN
    IF ~SliceOk(index + 5, index + 5 + Len(data))
    THEN [outcome |-> "fatal", why |-> "bounds", m |-> m1]
    ELSE [outcome |-> "ok", why |-> "",
          m |-> Upd(m1, PutSlice(m1.pages, p, index + 5, data))]

\* Lines 172-175: the new entry is stored at offset index of page p, the
\* address unit first, then the length field, then the payload.
WriteEntry(m, p, index, address, data) ==
    IF index >= PageLen THEN [outcome |-> "fatal", why |-> "bounds", m |-> m]
    ELSE
    LET m1 == Upd(m, PutUnit(m.pages, p, index, address)) IN
    IF ~SliceOk(index + 1, index + 5)
    THEN [outcome |-> "fatal", why |-> "bounds", m |-> m1]
    ELSE
    LET m2 == Upd(m1, PutSlice(m1.pages, p, index + 1, ToLeBytes(Len(data)))) IN
    IF ~SliceOk(index + 5, index + 5 + Len(data))
    THEN [outcome |-> "fatal", why |-> "bounds", m |-> m2]
    ELSE [outcome |-> "ok", why |-> "",
          m |-> Upd(m2, PutSlice(m2.pages, p, index + 5, data))]

\* The second half of one turn of the loop (lines 171-181): variable is the
\* header read at the top of the turn, p and index are the page and offset
\* after the space check.
RECURSIVE WriteLoop(_, _, _, _, _, _, _)
\* Mutant of WriteStore: an earlier entry of the address is skipped like any
\* other entry, it is not tombstoned
WriteStoreNoTombstone(m, p, index, gc_run, address, data, gc, variable) ==
    IF variable.address = U8Max
    THEN LET w == WriteEntry(m, p, index, address, data)
         IN WriteResult(w.m, w.outcome, w.why, TRUE, gc)
    ELSE WriteLoop(m, p, index + 5 + variable.size, gc_run, address, data, gc)

WriteStore(m, p, index, gc_run, address, data, gc, variable) ==
    IF variable.address = U8Max
    THEN LET w == WriteEntry(m, p, index, address, data)
         IN WriteResult(w.m, w.outcome, w.why, TRUE, gc)
    ELSE IF m.pages[p][index] = address
    THEN WriteLoop(Upd(m, PutUnit(m.pages, p, index, 0)), p,
                   index + 5 + variable.size, gc_run, address, data, gc)
    ELSE WriteLoop(m, p, index + 5 + variable.size, gc_run, address, data, gc)

\* Mutant of WriteLoop: gc_run is not set after the collection
WriteLoopCollectAgain(m, p, index, gc_run, address, data, gc) ==
    IF ~SliceOk(index, index + 5)
    THEN WriteResult(m, "fatal", "scan", TRUE, gc)
    ELSE
    LET variable == Variable(m.pages[p], index) IN
    IF index + 5 + Len(data) > PageLen
    THEN LET g == GcRun(m)
             gm == [pages |-> g.pages, steps |-> g.steps, resets |-> g.resets]
             gc1 == [calls |-> gc.calls + 1, done |-> g.outcome = "ok",
                     from |-> g.from, ret |-> g.ret]
         IN IF g.outcome = "fatal"
            THEN WriteResult(gm, "fatal", g.why, TRUE, gc1)
            ELSE WriteStore(gm, g.ret, 1, FALSE, address, data, gc1, variable)
    ELSE WriteStore(m, p, index, gc_run, address, data, gc, variable)

\* One turn of the loop of write_variable (lines 156-182)
WriteLoop(m, p, index, gc_run, address, data, gc) ==
    IF ~SliceOk(index, index + 5)
    THEN WriteResult(m, "fatal", "scan", TRUE, gc)
    ELSE
    LET variable == Variable(m.pages[p], index) IN
    IF index + 5 + Len(data) > PageLen
    THEN IF gc_run
         THEN WriteResult(m, "fatal", "nospace", TRUE, gc)
         ELSE LET g == GcRun(m)
                  gm == [pages |-> g.pages, steps |-> g.steps, resets |-> g.resets]
                  gc1 == [calls |-> gc.calls + 1, done |-> g.outcome = "ok",
                          from |-> g.from, ret |-> g.ret]
              IN IF g.outcome = "fatal"
                 THEN WriteResult(gm, "fatal", g.why, TRUE, gc1)
                 ELSE WriteStore(gm, g.ret, 1, TRUE, address, data, gc1, variable)
    ELSE WriteStore(m, p, index, gc_run, address, data, gc, variable)

\* Mutant of WriteVariable: only address 0 is refused
WriteVariableZeroOnly(st, address, data) ==
    IF address = 0
    THEN WriteResult(Mem(st), "fatal", "reserved", FALSE, NoGc)
    ELSE
    LET d == Discover(st) IN
    IF d.kind = "invalid"
    THEN WriteResult(Mem(st), "fatal", "header", TRUE, NoGc)
    ELSE
    LET m == IF d.kind = "active" THEN Mem(st) ELSE Initialize(Mem(st))
        active_page_index == IF d.kind = "active" THEN d.index ELSE 0
    IN WriteLoop(m, active_page_index, 1, FALSE, address, data, NoGc)

\* write_variable
WriteVariable(st, address, data) ==
    IF address = 0 \/ address = U8Max
    THEN WriteResult(Mem(st), "fatal", "reserved", FALSE, NoGc)
    ELSE
    LET d == Discover(st) IN
    IF d.kind = "invalid"
    THEN WriteResult(Mem(st), "fatal", "header", TRUE, NoGc)
    ELSE
    LET m == IF d.kind = "active" THEN Mem(st) ELSE Initialize(Mem(st))
        active_page_index == IF d.kind = "active" THEN d.index ELSE 0
    IN WriteLoop(m, active_page_index, 1, FALSE, address, data, NoGc)

\* ------------------------------------------------------------ read path
ReadResult(st, outcome, why, value, accessed) ==
    [outcome |-> outcome, why |-> why, value |-> value, pages |-> st,
     accessed |-> accessed]

\* The loop of read_variable (lines 214-228) on the active page
RECURSIVE ReadLoop(_, _, _, _)
ReadLoop(st, p, index, address) ==
    IF ~SliceOk(index, index + 5)
    THEN ReadResult(st, "fatal", "scan", <<>>, TRUE)
    ELSE
    LET variable == Variable(st[p], index) IN
    IF index >= PageLen THEN ReadResult(st, "none", "", <<>>, TRUE)
    ELSE IF variable.address = U8Max THEN ReadResult(st, "none", "", <<>>, TRUE)
    ELSE IF variable.address = address
    THEN IF ~SliceOk(index + 5, index + 5 + variable.size)
         THEN ReadResult(st, "fatal", "bounds", <<>>, TRUE)
         ELSE ReadResult(st, "some", "",
                         GetSlice(st, p, index + 5, variable.size), TRUE)
    ELSE ReadLoop(st, p, index + 5 + variable.size, address)

\* Mutant of ReadVariable: a store with no Active page is initialized, as
\* the write path does
ReadVariableInitializing(st, address) ==
    IF address = 0 \/ address = U8Max
    THEN ReadResult(st, "fatal", "reserved", <<>>, FALSE)
    ELSE
    LET d == Discover(st) IN
    IF d.kind = "invalid" THEN ReadResult(st, "fatal", "header", <<>>, TRUE)
    ELSE IF d.kind = "none"
    THEN ReadResult(Initialize(Mem(st)).pages, "none", "", <<>>, TRUE)
    ELSE ReadLoop(st, d.index, 1, address)

\* read_variable
ReadVariable(st, address) ==
    IF address = 0 \/ address = U8Max
    THEN ReadResult(st, "fatal", "reserved", <<>>, FALSE)
    ELSE
    LET d == Discover(st) IN
    IF d.kind = "invalid" THEN ReadResult(st, "fatal", "header", <<>>, TRUE)
    ELSE IF d.kind = "none" THEN ReadResult(st, "none", "", <<>>, TRUE)
    ELSE ReadLoop(st, d.index, 1, address)

\* ================================================================ state
\* pages      the page store
\* last       the call made last: its arguments, its outcome and what it did
\* written    per address, the payload of the last write that returned
\* attempted  the addresses write_variable has been called with
\* allNormal  no call so far has terminated fatally
\* gcHist     the destinations of the last NumPages completed collections
\* writesOnly every call so far is a read, or a write of a payload that fits
\*            in a page to a non-reserved address
\* fitsAll    at every write so far the live entries of the other addresses
\*            and the new entry fitted together in one page
VARIABLES pages, last, written, attempted, allNormal, gcHist, writesOnly, fitsAll

vars == <<pages, last, written, attempted, allNormal, gcHist, writesOnly, fitsAll>>

Reserved(address) == address = 0 \/ address = U8Max

\* The page headers of a store, and of each store of a sequence of stores
Headers(st) == [p \in PageIndexes |-> st[p][0]]
HeaderSteps(steps) == [i \in 1 .. Len(steps) |-> Headers(steps[i])]
UserAddresses == {a \in InputAddresses : ~Reserved(a)}

NoCall ==
    [op |-> "none", address |-> 0, data |-> <<>>, outcome |-> "ok", why |-> "",
     value |-> <<>>, accessed |-> FALSE, changed |-> FALSE, steps |-> <<>>,
     resets |-> <<>>, gcCalls |-> 0, gcDone |-> FALSE, gcFrom |-> 0,
     gcRet |-> 0, preNormal |-> TRUE, preKind |-> "none", preIndex |-> 0,
     preErased |-> TRUE]

Init ==
    /\ pages = ErasedStore
    /\ last = NoCall
    /\ written = [a \in UserAddresses |-> [set |-> FALSE, data |-> <<>>]]
    /\ attempted = {}
    /\ allNormal = TRUE
    /\ gcHist = <<>>
    /\ writesOnly = TRUE
    /\ fitsAll = TRUE

\* Units taken by the live entries of the addresses in S
RECURSIVE LiveUnits(_, _)
LiveUnits(w, S) ==
    IF S = {} THEN 0
    ELSE LET a == CHOOSE x \in S : TRUE
         IN (IF w[a].set THEN 5 + Len(w[a].data) ELSE 0) + LiveUnits(w, S \ {a})

FitsInPage(data) == 1 + 5 + Len(data) <= PageLen

FitsWithOthers(w, address, data) ==
    LiveUnits(w, UserAddresses \ {address}) + 5 + Len(data) <= PageLen - 1

Remember(h, ret) ==
    IF Len(h) < NumPages THEN Append(h, ret) ELSE Append(Tail(h), ret)

Write(address, data) ==
    \E r \in {WriteVariable(pages, address, data)} :
    /\ pages' = r.pages
    /\ last' = [op |-> "write", address |-> address, data |-> data,
                outcome |-> r.outcome, why |-> r.why, value |-> <<>>,
                accessed |-> r.accessed, changed |-> r.pages # pages,
                steps |-> HeaderSteps(r.steps), resets |-> r.resets, gcCalls |-> r.gcCalls,
                gcDone |-> r.gcDone, gcFrom |-> r.gcFrom, gcRet |-> r.gcRet,
                preNormal |-> allNormal, preKind |-> Discover(pages).kind,
                preIndex |-> Discover(pages).index,
                preErased |-> pages = ErasedStore]
    /\ written' = IF r.outcome = "ok"
                  THEN [written EXCEPT ![address] = [set |-> TRUE, data |-> data]]
                  ELSE written
    /\ attempted' = IF Reserved(address) THEN attempted ELSE attempted \cup {address}
    /\ allNormal' = (allNormal /\ r.outcome = "ok")
    /\ gcHist' = IF r.gcDone THEN Remember(gcHist, r.gcRet) ELSE gcHist
    /\ writesOnly' = (writesOnly /\ ~Reserved(address) /\ FitsInPage(data))
    /\ fitsAll' = (fitsAll /\ ~Reserved(address)
                   /\ FitsWithOthers(written, address, data))

Read(address) ==
    \E r \in {ReadVariable(pages, address)} :
    /\ pages' = r.pages
    /\ last' = [op |-> "read", address |-> address, data |-> <<>>,
                outcome |-> r.outcome, why |-> r.why, value |-> r.value,
                accessed |-> r.accessed, changed |-> r.pages # pages,
                steps |-> <<>>, resets |-> <<>>, gcCalls |-> 0,
                gcDone |-> FALSE, gcFrom |-> 0, gcRet |-> 0,
                preNormal |-> allNormal, preKind |-> Discover(pages).kind,
                preIndex |-> Discover(pages).index,
                preErased |-> pages = ErasedStore]
    /\ allNormal' = (allNormal /\ r.outcome # "fatal")
    /\ UNCHANGED <<written, attempted, gcHist, writesOnly, fitsAll>>

Collect ==
    \E r \in {RunGarbageCollection(pages)} :
    /\ pages' = r.pages
    /\ last' = [op |-> "collect", address |-> 0, data |-> <<>>,
                outcome |-> r.outcome, why |-> r.why, value |-> <<>>,
                accessed |-> TRUE, changed |-> r.pages # pages,
                steps |-> HeaderSteps(r.steps), resets |-> r.resets, gcCalls |-> 1,
                gcDone |-> r.outcome = "ok", gcFrom |-> r.from, gcRet |-> r.ret,
                preNormal |-> allNormal, preKind |-> Discover(pages).kind,
                preIndex |-> Discover(pages).index,
                preErased |-> pages = ErasedStore]
    /\ allNormal' = (allNormal /\ r.outcome = "ok")
    /\ gcHist' = IF r.outcome = "ok" THEN Remember(gcHist, r.ret) ELSE gcHist
    /\ writesOnly' = FALSE
    /\ UNCHANGED <<written, attempted, fitsAll>>

Next ==
    \/ \E address \in InputAddresses, data \in Payloads : Write(address, data)
    \/ \E address \in InputAddresses : Read(address)
    \/ Collect

Spec == Init /\ [][Next]_vars

\* A store that was never used: every header Erased, the other units of a
\* page either erased or left over from an earlier life of the device.
Leftover(b) == [k \in Offsets |-> IF k = 0 THEN U8Max ELSE b[((k - 1) % Len(b)) + 1]]
GarbagePages == {ErasedPage, Leftover(<<0>>), Leftover(<<1, 1, 0, 0, 0, 9>>)}

InitGarbage ==
    /\ pages \in [PageIndexes -> GarbagePages]
    /\ last = NoCall
    /\ written = [a \in UserAddresses |-> [set |-> FALSE, data |-> <<>>]]
    /\ attempted = {}
    /\ allNormal = TRUE
    /\ gcHist = <<>>
    /\ writesOnly = TRUE
    /\ fitsAll = TRUE

SpecGarbage == InitGarbage /\ [][Next]_vars

\* Execution stops inside a call (power is lost): the pages are non-volatile
\* and keep the updates the call had made, the call does not return. The call
\* is a collection or a write; r is what the call would have done, j the
\* number of page updates made when execution stops.
\* Of the interrupted call, last records (resets excepted) what had happened
\* by then: gcCalls = 1 when the source page of a collection had been marked
\* GcRunning, gcDone when its destination had been set Active.
Cut(op, address, data, r, j) ==
    LET marked == {k \in 1 .. j : r.steps[k][r.gcFrom][0] = GcRunning}
        promoted == {k \in 1 .. j : /\ \E i \in marked : i < k
                                    /\ r.steps[k][r.gcRet][0] = Active}
    IN [op |-> "interrupt", address |-> address, data |-> data,
        outcome |-> "interrupted", why |-> op, value |-> <<>>,
        accessed |-> TRUE, changed |-> r.steps[j] # pages,
        steps |-> HeaderSteps(SubSeq(r.steps, 1, j)), resets |-> <<>>,
        gcCalls |-> IF marked = {} THEN 0 ELSE 1,
        gcDone |-> promoted # {},
        gcFrom |-> r.gcFrom,
        gcRet |-> IF r.gcDone THEN r.gcRet ELSE NextPageIndex(r.gcFrom),
        preNormal |-> allNormal, preKind |-> Discover(pages).kind,
        preIndex |-> Discover(pages).index, preErased |-> pages = ErasedStore]

InterruptedCollection(st) ==
    LET g == RunGarbageCollection(st)
    IN [steps |-> g.steps, gcFrom |-> g.from, gcRet |-> g.ret,
        gcDone |-> g.outcome = "ok"]

Interrupt ==
    \E op \in {"collect", "write"}, address \in UserAddresses, data \in Payloads :
    \E r \in {IF op = "collect" THEN InterruptedCollection(pages)
              ELSE WriteVariable(pages, address, data)} :
    \E j \in 1 .. (Len(r.steps) - 1) :
    /\ op = "collect" => (address = 1 /\ data = <<>>)
    /\ pages' = r.steps[j]
    /\ last' = Cut(op, IF op = "collect" THEN 0 ELSE address, data, r, j)
    /\ attempted' = IF op = "write" THEN attempted \cup {address} ELSE attempted
    /\ allNormal' = FALSE
    /\ gcHist' = IF last'.gcDone THEN Remember(gcHist, last'.gcRet) ELSE gcHist
    /\ writesOnly' = FALSE
    /\ UNCHANGED <<written, fitsAll>>

\* Calls are made while every call returns normally; execution may stop
\* inside a call made on such a store, and one call is made on the store
\* found after the interruption.
NextCrash ==
    \/ allNormal /\ Next
    \/ allNormal /\ Interrupt
    \/ last.op = "interrupt" /\ Next

SpecCrash == Init /\ [][NextCrash]_vars

\* A store whose headers were damaged: each page is erased, or Active with
\* one entry, or carries a header value that is none of Erased, Active and
\* GcRunning; at least one page is of the last kind.
IsCorrupt(h) == h \notin {Erased, Active, GcRunning}
CorruptPage == [k \in Offsets |-> IF k = 0 THEN 7 ELSE U8Max]
ActiveOnePage ==
    [k \in Offsets |-> IF k = 0 THEN Active
                       ELSE IF k <= 6 THEN (<<1>> \o ToLeBytes(1) \o <<254>>)[k]
                       ELSE U8Max]
DamagedPages == {ErasedPage, ActiveOnePage, CorruptPage}
HasCorrupt(st) == \E p \in PageIndexes : IsCorrupt(st[p][0])

InitCorrupt ==
    /\ pages \in {st \in [PageIndexes -> DamagedPages] : HasCorrupt(st)}
    /\ last = NoCall
    /\ written = [a \in UserAddresses |-> [set |-> FALSE, data |-> <<>>]]
    /\ attempted = {}
    /\ allNormal = TRUE
    /\ gcHist = <<>>
    /\ writesOnly = TRUE
    /\ fitsAll = TRUE

SpecCorrupt == InitCorrupt /\ [][Next]_vars

\* ============================================================== claims
ActivePages(h) == {p \in PageIndexes : h[p] = Active}

\* read_variable(b) on the current store gives what was last written to b
ReadsBack(b) ==
    LET r == ReadVariable(pages, b) IN
    IF written[b].set THEN r.outcome = "some" /\ r.value = written[b].data
    ELSE r.outcome = "none"

\* the write made last is read back: Some of exactly its payload
LastWriteReadsBack ==
    LET r == ReadVariable(pages, last.address) IN
    last.outcome = "ok" /\ r.outcome = "some" /\ r.value = last.data

\* C1: from an all-erased store, as long as every call is a write to a
\* non-reserved address whose entry fits in a page together with the live
\* entries of the other addresses, no write terminates fatally and every
\* address reads back the payload last written to it (None if never written).
C1_LiveDataSurvives ==
    (writesOnly /\ fitsAll) =>
        /\ last.op = "write" => last.outcome = "ok"
        /\ \A b \in UserAddresses : ReadsBack(b)

\* C2: in a store reached by calls that returned normally, a write of a
\* payload that fits in a page to a non-reserved address returns normally and
\* the read that follows returns exactly that payload.
C2_RoundTrip ==
    (last.op = "write" /\ last.preNormal /\ ~Reserved(last.address)
        /\ FitsInPage(last.data))
    => LastWriteReadsBack

\* C3: when all the writes so far went to one and the same non-reserved
\* address, with payloads that each fit in a page, every write returns
\* normally and reads back the payload just written.
C3_ChurnReadsBack ==
    (writesOnly /\ Cardinality(attempted) = 1 /\ last.op = "write")
    => LastWriteReadsBack

\* C4: in a store reached by calls that returned normally, read_variable
\* returns None for every non-reserved address write_variable was never
\* called with.
C4_AbsentIsNone ==
    allNormal =>
        \A a \in UserAddresses \ attempted : ReadVariable(pages, a).outcome = "none"

\* C5: a read or a write with address 0 or 255 terminates fatally before the
\* page store is accessed, and leaves every unit of every page as it was.
C5_ReservedIsFatal ==
    (last.op \in {"read", "write"} /\ Reserved(last.address))
    => (last.outcome = "fatal" /\ ~last.accessed /\ ~last.changed)

\* a reserved-address write on a store that holds data
C5_Witness ==
    /\ last.op = "write" /\ last.address = U8Max /\ Len(last.data) > 0
    /\ \E a \in UserAddresses : ReadVariable(pages, a).outcome = "some"

\* C6: a write to a non-reserved address of a payload whose entry cannot fit
\* in an empty page (1 + 5 + len > page length) terminates fatally.
C6_TooLongIsFatal ==
    (last.op = "write" /\ ~Reserved(last.address) /\ ~FitsInPage(last.data))
    => last.outcome = "fatal"

\* a too-long write that collected first and still had no room
C6_Witness ==
    /\ last.op = "write" /\ ~Reserved(last.address) /\ ~FitsInPage(last.data)
    /\ last.gcDone /\ last.outcome = "fatal"

\* C7: a completed collection cycle that started with page i Active leaves
\* page i Erased and page (i + 1) mod N Active (and returns that index); and
\* the destinations of up to N consecutive completed cycles are all different,
\* so N of them visit every page once.
C7_WearRotation ==
    /\ (last.gcDone /\ last.preKind = "active") =>
          /\ pages[last.preIndex][0] = Erased
          /\ pages[(last.preIndex + 1) % NumPages][0] = Active
          /\ last.gcRet = (last.preIndex + 1) % NumPages
    /\ (last.gcDone /\ last.preKind = "none") =>
          /\ pages[0][0] = Erased
          /\ pages[1 % NumPages][0] = Active
    /\ \A i, j \in 1 .. Len(gcHist) : i # j => gcHist[i] # gcHist[j]
    /\ Len(gcHist) = NumPages => {gcHist[i] : i \in 1 .. NumPages} = PageIndexes

\* N cycles have completed, the last of them inside a write
C7_Witness ==
    /\ Len(gcHist) = NumPages
    /\ last.op = "write" /\ last.gcDone /\ last.preKind = "active"

\* a write or a collect has returned normally
SomeCallDone == Len(gcHist) > 0 \/ \E a \in UserAddresses : written[a].set

\* C8: at most one page is Active after every page update of every call, and
\* once a write or a collect has returned normally exactly one page is Active
\* between calls.
C8_SingleActive ==
    /\ \A i \in 1 .. Len(last.steps) : Cardinality(ActivePages(last.steps[i])) <= 1
    /\ Cardinality(ActivePages(Headers(pages))) <= 1
    /\ SomeCallDone => Cardinality(ActivePages(Headers(pages))) = 1

\* What the call recorded in l leaves of an entirely erased store
OnErasedStore(l) ==
    IF l.op = "write" THEN WriteVariable(ErasedStore, l.address, l.data).pages
    ELSE RunGarbageCollection(ErasedStore).pages

\* The call recorded in l began by erasing every page, in index order, and
\* then made page 0 Active.
BeganWithInit(l) ==
    /\ Len(l.resets) >= NumPages
    /\ \A i \in 1 .. NumPages : l.resets[i] = i - 1
    /\ Len(l.steps) > NumPages
    /\ l.steps[NumPages + 1] = [p \in PageIndexes |-> IF p = 0 THEN Active ELSE Erased]

\* C9 as stated: a write or a collect on a store whose headers are all Erased
\* begins with the initialization and ends in the state the same call
\* produces on an entirely erased store, whatever the other units held.
C9_InitIsDeterministic ==
    [][(Discover(pages).kind = "none" /\ last'.op \in {"write", "collect"})
       => (BeganWithInit(last') /\ pages' = OnErasedStore(last'))]_vars

\* C9 as amended: the same, for a collect and for a write to a non-reserved
\* address.
C9_InitIsDeterministicUnlessReserved ==
    [][(Discover(pages).kind = "none" /\ last'.op \in {"write", "collect"}
        /\ ~(last'.op = "write" /\ Reserved(last'.address)))
       => (BeganWithInit(last') /\ pages' = OnErasedStore(last'))]_vars

\* a write that returned normally on a never-used store with leftover units
C9_Witness ==
    /\ last.op = "write" /\ last.outcome = "ok"
    /\ last.preKind = "none" /\ ~last.preErased

\* C10: read_variable leaves every unit of every page unchanged whatever it
\* returns, and on a store with no Active page it returns None for a
\* non-reserved address.
C10_ReadHasNoEffect ==
    /\ last.op = "read" => ~last.changed
    /\ (last.op = "read" /\ last.preKind = "none" /\ ~Reserved(last.address))
       => last.outcome = "none"

\* a read that returned None on a never-used store with leftover units
C10_Witness ==
    /\ last.op = "read" /\ last.outcome = "none"
    /\ last.preKind = "none" /\ ~last.preErased /\ pages # ErasedStore

\* ------------------------------------------------------------ the log
\* The log of a page from offset i on is well formed: entries packed one
\* after the other, each with its header and payload inside the page, then
\* only erased units up to the page end.
RECURSIVE WellFormedFrom(_, _)
WellFormedFrom(page, i) ==
    IF i >= PageLen THEN i = PageLen
    ELSE IF page[i] = U8Max THEN \A k \in i .. (PageLen - 1) : page[k] = U8Max
    ELSE /\ i + 5 <= PageLen
         /\ i + 5 + ReadU32(page, i + 1) <= PageLen
         /\ WellFormedFrom(page, i + 5 + ReadU32(page, i + 1))

WellFormed(page) == WellFormedFrom(page, 1)

\* The entries of a well-formed log from offset i on, as records
RECURSIVE Entries(_, _)
Entries(page, i) ==
    IF i >= PageLen \/ page[i] = U8Max THEN <<>>
    ELSE <<[address |-> page[i], offset |-> i,
            data |-> [j \in 1 .. ReadU32(page, i + 1) |-> page[i + 4 + j]]]>>
         \o Entries(page, i + 5 + ReadU32(page, i + 1))

\* The units of the live entries of a well-formed log, in log order
RECURSIVE LiveBytes(_)
LiveBytes(es) ==
    IF es = <<>> THEN <<>>
    ELSE (IF Head(es).address = 0 THEN <<>>
          ELSE <<Head(es).address>> \o ToLeBytes(Len(Head(es).data)) \o Head(es).data)
         \o LiveBytes(Tail(es))

\* An Active page that holds exactly the units bs from offset 1 on
PackedPage(bs) ==
    [k \in Offsets |-> IF k = 0 THEN Active
                       ELSE IF k <= Len(bs) THEN bs[k] ELSE U8Max]

\* C11: run_garbage_collection on a store whose active page i holds a
\* well-formed log returns normally with (i + 1) mod N, and leaves page
\* (i + 1) mod N Active, holding the live entries of page i packed from
\* offset 1 in their order, then erased units.
C11_CollectorCompacts ==
    [][(last'.op = "collect" /\ Discover(pages).kind = "active"
        /\ WellFormed(pages[Discover(pages).index]))
       => /\ last'.outcome = "ok"
          /\ last'.gcRet = (Discover(pages).index + 1) % NumPages
          /\ pages'[(Discover(pages).index + 1) % NumPages]
               = PackedPage(LiveBytes(Entries(pages[Discover(pages).index], 1)))]_vars

\* C12: in a store reached by calls that returned normally, no call ends in
\* a panic of the header slice at the top of a scan turn (lines 91, 157, 215):
\* a scan that reaches the page end ends like one that reaches the free-space
\* marker.
C12_ScanStopsAtPageEnd ==
    last.preNormal => ~(last.outcome = "fatal" /\ last.why = "scan")

\* The addresses of the live entries of a sequence of entries
LiveAddresses(es) == {es[i].address : i \in {j \in 1 .. Len(es) : es[j].address # 0}}

\* the active page of the store, when there is one
ActivePage == pages[Discover(pages).index]

\* C13: in a store reached by calls that returned normally, the log of the
\* active page is well formed: entries packed from offset 1 without a gap,
\* each inside the page, then only erased units.
C13_LogWellFormed ==
    (allNormal /\ Discover(pages).kind = "active") => WellFormed(ActivePage)

\* a write that collected and then stored its entry, on a page that holds it
\* at offset 1
C13_Witness ==
    /\ allNormal /\ last.op = "write" /\ last.gcDone
    /\ Discover(pages).kind = "active"
    /\ Len(Entries(ActivePage, 1)) = 1
    /\ Entries(ActivePage, 1)[1].address = last.address

\* C14: in a store reached by calls that returned normally, no two entries of
\* the active page have the same address in 1..254, and read_variable of an
\* address that was written returns the payload written last.
C14_LiveAddressesUnique ==
    (allNormal /\ Discover(pages).kind = "active") =>
        /\ \A i, j \in 1 .. Len(Entries(ActivePage, 1)) :
              (i # j /\ Entries(ActivePage, 1)[i].address # 0)
              => Entries(ActivePage, 1)[i].address # Entries(ActivePage, 1)[j].address
        /\ \A b \in UserAddresses : written[b].set =>
              /\ ReadVariable(pages, b).outcome = "some"
              /\ ReadVariable(pages, b).value = written[b].data

\* an address written twice with different payloads: its first entry is a
\* tombstone, its second is live
C14_Witness ==
    /\ allNormal /\ last.op = "write" /\ Discover(pages).kind = "active"
    /\ Len(Entries(ActivePage, 1)) = 2
    /\ Entries(ActivePage, 1)[1].address = 0
    /\ Entries(ActivePage, 1)[2].address = last.address
    /\ Entries(ActivePage, 1)[1].data # Entries(ActivePage, 1)[2].data

\* C15: in a store reached by calls that returned normally, every page other
\* than the active page is entirely erased; and the assertion on the
\* destination header (line 82) fails in no call.
C15_OtherPagesErased ==
    /\ allNormal =>
          \A p \in PageIndexes :
              (Discover(pages).kind = "active" /\ p = Discover(pages).index)
              \/ pages[p] = ErasedPage
    /\ last.why # "dest"

\* a collection has completed on a page that held tombstones, and the page it
\* left behind is erased
C15_Witness ==
    /\ allNormal /\ last.op = "write" /\ last.gcDone /\ Len(gcHist) >= 2
    /\ Discover(pages).kind = "active"
    /\ Entries(ActivePage, 1) # <<>>

\* The number of page updates the call recorded in l made up to and including
\* the one that made the destination of its collection Active
GcEndStep(l) ==
    CHOOSE j \in 1 .. Len(l.steps) :
        /\ l.steps[j][l.gcRet] = Active
        /\ j > 1 /\ l.steps[j - 1][l.gcRet] # Active

\* C16: a write of an entry that does not fit in a page, terminating fatally
\* after its one collection has completed, has written no unit of the entry
\* (no page update follows the collection), and every read of a non-reserved
\* address on the store it leaves returns normally.
C16_NoPartialEntry ==
    (/\ last.op = "write" /\ last.outcome = "fatal"
     /\ last.gcDone /\ ~FitsInPage(last.data)) =>
        /\ Len(last.steps) = GcEndStep(last)
        /\ \A a \in UserAddresses : ReadVariable(pages, a).outcome # "fatal"

\* C17 as stated: in every store state in which some page header is corrupt,
\* wherever the page lies, each of read_variable, write_variable and
\* run_garbage_collection terminates fatally.
C17_CorruptIsFatal ==
    [][HasCorrupt(pages) => last'.outcome = "fatal"]_vars

\* Page p is the first page whose header is not Erased
FirstUsed(st, p) ==
    st[p][0] # Erased /\ \A q \in PageIndexes : q < p => st[q][0] = Erased

\* The corrupt header is the first header that is not Erased
CorruptFirst(st) == \E p \in PageIndexes : FirstUsed(st, p) /\ IsCorrupt(st[p][0])

\* The first header that is not Erased is Active
ActiveFirst(st) == \E p \in PageIndexes : FirstUsed(st, p) /\ st[p][0] = Active

\* The corrupt header is on the page that follows the active page
CorruptNext(st) ==
    \E p \in PageIndexes :
        /\ FirstUsed(st, p) /\ st[p][0] = Active
        /\ IsCorrupt(st[(p + 1) % NumPages][0])

\* C17 amended: a corrupt header is fatal to all three operations, the store
\* left as it is, when no page of lower index is Active; it is fatal to
\* run_garbage_collection also when it is on the page following the active
\* page. In every other store state with a corrupt header the header scan
\* stops at the Active page before it reaches the corrupt one: a read of a
\* non-reserved address returns normally.
C17_CorruptBeforeActiveIsFatal ==
    [][/\ CorruptFirst(pages) =>
            /\ last'.outcome = "fatal" /\ pages' = pages
            /\ (last'.op = "collect" \/ ~Reserved(last'.address)) => last'.why = "header"
       /\ (CorruptNext(pages) /\ last'.op = "collect") =>
            last'.outcome = "fatal" /\ last'.why = "dest" /\ pages' = pages
       /\ (/\ HasCorrupt(pages) /\ ActiveFirst(pages)
           /\ last'.op = "read" /\ ~Reserved(last'.address)) =>
            last'.why # "header"]_vars

\* A write of a non-reserved address has just stopped on a corrupt header that
\* precedes an Active page
C17_Witness ==
    /\ CorruptFirst(pages) /\ ActivePages(Headers(pages)) # {}
    /\ last.op = "write" /\ ~Reserved(last.address)
    /\ last.outcome = "fatal" /\ last.why = "header"

\* Execution stopped inside a collection cycle, after the source page was
\* marked GcRunning and before the destination page was set Active
InsideCycle == last.op = "interrupt" /\ last.gcCalls = 1 /\ ~last.gcDone

\* Every call on the store st terminates fatally and leaves st as it is
AllCallsFatal(st) ==
    /\ \A a \in UserAddresses : ReadVariable(st, a).outcome = "fatal"
    /\ \A a \in UserAddresses, d \in Payloads :
          /\ WriteVariable(st, a, d).outcome = "fatal"
          /\ WriteVariable(st, a, d).pages = st
    /\ RunGarbageCollection(st).outcome = "fatal"
    /\ RunGarbageCollection(st).pages = st

\* C18 as stated: when execution stops anywhere inside a collection cycle,
\* between the GcRunning mark and the promotion of the destination, every
\* later read, write and collection terminates fatally.
C18_InterruptedIsUnusable == InsideCycle => AllCallsFatal(pages)

\* C18 amended: while the source page still carries GcRunning it is the first
\* page whose header is not Erased, and in every state with such a first
\* header every call terminates fatally and leaves the store as it is, so
\* the store stays unusable. When execution stops after the source page has
\* been erased, every header is Erased: read_variable returns None and
\* write_variable initializes the store again and returns normally.
C18_InterruptedBeforeEraseIsUnusable ==
    /\ (InsideCycle /\ pages[last.gcFrom][0] = GcRunning) =>
            FirstUsed(pages, last.gcFrom)
    /\ (\E p \in PageIndexes : FirstUsed(pages, p) /\ pages[p][0] = GcRunning) =>
            AllCallsFatal(pages)
    /\ (InsideCycle /\ pages[last.gcFrom][0] # GcRunning) =>
            /\ \A p \in PageIndexes : pages[p][0] = Erased
            /\ \A a \in UserAddresses : ReadVariable(pages, a).outcome = "none"
            /\ \A a \in UserAddresses :
                  WriteVariable(pages, a, <<>>).outcome = "ok"

\* Execution stopped inside the collection run by a write, after a tombstoned
\* entry was skipped and before the source page was erased
C18_Witness ==
    /\ InsideCycle /\ last.why = "write"
    /\ pages[last.gcFrom][0] = GcRunning
    /\ Entries(pages[last.gcFrom], 1) # <<>>

\* The offset of the free-space sentinel of a well-formed log
LogTail(page) ==
    LET es == Entries(page, 1)
    IN IF es = <<>> THEN 1 ELSE es[Len(es)].offset + 5 + Len(es[Len(es)].data)

\* The entry for data fits behind the log of the active page of st
FitsAtTail(st, data) ==
    /\ ActiveFirst(st)
    /\ WellFormed(st[Discover(st).index])
    /\ LogTail(st[Discover(st).index]) + 5 + Len(data) <= PageLen

\* C19: a write_variable call invokes run_garbage_collection at most once; a
\* call stopped by the space check failing after the collection is fatal and
\* has collected exactly once; a call whose entry fits at the tail of the
\* active page invokes no collection, erases no page and changes no page but
\* the active one.
C19_AtMostOneCollection ==
    [][last'.op = "write" =>
          /\ last'.gcCalls <= 1
          /\ last'.why = "nospace" =>
                last'.outcome = "fatal" /\ last'.gcCalls = 1 /\ last'.gcDone
          /\ (~Reserved(last'.address) /\ FitsAtTail(pages, last'.data)) =>
                /\ last'.gcCalls = 0 /\ last'.resets = <<>>
                /\ \A p \in PageIndexes :
                      p # Discover(pages).index => pages'[p] = pages[p]]_vars

\* A write stopped by the space check after its one collection
C19_Witness ==
    /\ last.op = "write" /\ last.why = "nospace"
    /\ last.gcCalls = 1 /\ last.gcDone /\ last.outcome = "fatal"

\* C20 as stated: a run_garbage_collection call that returns normally calls
\* reset_page exactly once, on the page that was active when it started (page
\* 0 when none was), whatever the store it was called on.
C20_OneErasePerCycle ==
    (last.op = "collect" /\ last.outcome = "ok") => last.resets = <<last.preIndex>>

\* The reset_page calls of first-use initialization followed by the one of
\* the cycle that starts on page 0
InitThenCycleResets == [i \in 1 .. (NumPages + 1) |-> IF i <= NumPages THEN i - 1 ELSE 0]

\* C20 amended: a run_garbage_collection call that returns normally, made on
\* a store with an Active page, calls reset_page exactly once, on that page,
\* and leaves every page but it and the destination as it was; made on a
\* store with no Active page it first erases every page (initialization) and
\* then erases page 0 again at the end of the cycle.
C20_OneErasePerCycleOnceActive ==
    [][(last'.op = "collect" /\ last'.outcome = "ok") =>
          IF ActiveFirst(pages)
          THEN /\ \E p \in PageIndexes :
                    /\ FirstUsed(pages, p)
                    /\ last'.resets = <<p>>
                    /\ pages'[p] = ErasedPage
                    /\ \A q \in PageIndexes \ {p, (p + 1) % NumPages} :
                          pages'[q] = pages[q]
          ELSE last'.resets = InitThenCycleResets]_vars

\* A collection that found page N - 1 Active has returned, page 0 being its
\* destination
C20_Witness ==
    /\ last.op = "collect" /\ last.outcome = "ok"
    /\ last.preKind = "active" /\ last.preIndex = NumPages - 1
    /\ last.gcRet = 0 /\ last.resets = <<NumPages - 1>>

====
